---- MODULE Spec2Model ----
(***************************************************************************)
(* Model of the image-captioning batch job:                                *)
(*   BatchImageCaptions        (batch_image_captions.py)  the acquisition  *)
(*                             pipeline: producer thread, worker pool,     *)
(*                             multiprocessing.Queue, consumer loop;       *)
(*   ImageCaptionProcessor     (image_caption_processor.py) fetch and      *)
(*                             annotate;                                   *)
(*   ImageCaptionsJobManager   (image_captions_job.py) the per-file loop   *)
(*                             with the JSON status store and the output   *)
(*                             file opened in append mode.                 *)
(***************************************************************************)
EXTENDS Integers, Sequences, FiniteSets, TLC

\* ------------------------------------------------------------------------
\* Bounds of the model
\* ------------------------------------------------------------------------
MaxUrls == 2
MaxProducers == 1
MaxPools == 2
MaxRows == 2
MaxCrashes == 2

\* ------------------------------------------------------------------------
\* Values
\* ------------------------------------------------------------------------
None == "None"

\* identifier lists handed to the pipeline: the prefixes of one list and a permutation
UrlLists ==
    {SubSeq(<<"u", "v", "w", "x">>, 1, n) : n \in 0..MaxUrls} \cup {<<"v", "u">>}

Min(a, b) == IF a < b THEN a ELSE b

VARIABLES
    cfg,             \* constructor arguments of BatchImageCaptions / the processor
    pool,            \* self.pool: 0 is None, k > 0 is the k-th Pool object created
    pool_running,    \* whether the Pool object self.pool refers to accepts tasks
    is_pool_closed,  \* self.is_pool_closed
    qbuf,            \* self.queue: objects put, not yet written to the pipe by the feeder
    qpipe,           \* self.queue: objects in the pipe, visible to get() and empty()
    producers,       \* producer threads still known; the last one is the local `thread`
    cons_pc,         \* position of the caller inside get_image_captions_from_urls
    images,          \* local `images`
    all_images,      \* local `all_images`
    annot_arg,       \* argument of the last add_image_captions call
    annot_calls,     \* add_image_captions calls made by the current invocation
    popped,          \* queue.get() calls returned in the current invocation
    jpc,             \* position of the caller of the pipeline
    inputs,          \* input path -> the batches _iter_batches yields for it
    status,          \* self.status.data, the status store in memory
    disk,            \* the status file on disk
    outfile,         \* output path -> what the file system holds for it
    outbuf,          \* rows written to the open output file object, not yet flushed
    call,            \* arguments of the running process_files call
    fidx,            \* position of the zip loop of process_files
    bid,             \* loop variable bid of __process_file, 0 while unbound
    err,             \* exception the last call of the caller ended with, None if none
    crashes,         \* process kills so far
    clean_kills,     \* every kill so far came right after a batch's record was flushed
    cfg2,            \* constructor arguments of a second job manager
    lookup,          \* what the second manager finds in the store under its own key
    failed,          \* the file whose batch last ended process_files with an exception,
                     \* the batches it had completed, whether it was begun again since
    saved,           \* the last complete document written to the status file
    single           \* what the last get_image_with_caption_from_url call returned

pipeVars == <<pool, pool_running, is_pool_closed, qbuf, qpipe, producers,
              cons_pc, images, all_images, annot_arg, annot_calls, popped>>
aux == <<crashes, clean_kills, cfg2, lookup, failed, saved, single>>
jobVars == <<inputs, status, disk, outfile, outbuf, call, fidx, bid, err, aux>>
vars == <<cfg, pipeVars, jpc, jobVars>>

\* ------------------------------------------------------------------------
\* ImageWithCaption and ImageCaptionProcessor
\* ------------------------------------------------------------------------
ImageWithCaption(url, is_valid, idx) ==
    [url |-> url, is_valid |-> is_valid, idx |-> idx, caption |-> None]

add_caption(image, caption) == [image EXCEPT !.caption = caption]

\* ok: whether requests.get / Image.open succeeded for this url
get_image_from_url(url, idx, ok) ==
    IF ok THEN ImageWithCaption(url, TRUE, idx)
          ELSE ImageWithCaption(url, FALSE, idx)

\* get_caption_from_image without the test of line 86
get_caption_from_image_NoValidTest(image_info) == "caption"

\* get_caption_from_image, lines 86-90: None for a record that is not valid
get_caption_from_image(image_info) == IF image_info.is_valid THEN "caption" ELSE None

\* get_image_with_caption_from_url, lines 102-104; idx keeps its default of -1
get_image_with_caption_from_url(url, ok) ==
    LET image_info == get_image_from_url(url, -1, ok)
    IN add_caption(image_info, get_caption_from_image(image_info))

\* the text the model generates and batch_decode returns: one string per image
Captions(ims) == [j \in 1..Len(ims) |-> "caption"]

\* ------------------------------------------------------------------------
\* BatchImageCaptions
\* ------------------------------------------------------------------------
InitPipeline ==
    /\ pool = 0
    /\ pool_running = FALSE
    /\ is_pool_closed = TRUE
    /\ qbuf = <<>>
    /\ qpipe = <<>>
    /\ producers = <<>>
    /\ cons_pc = "idle"
    /\ images = <<>>
    /\ all_images = <<>>
    /\ annot_arg = <<>>
    /\ annot_calls = 0
    /\ popped = 0

Alive(p) == p.pc # "dead"

NewProducer(urls) == [urls |-> urls, i |-> 0, pc |-> "fetch", batch |-> <<>>]

\* lines 61-65: open the pool if closed, start the producer thread
Invoke(urls) ==
    /\ cons_pc = "idle"
    /\ Len(SelectSeq(producers, Alive)) < MaxProducers
    /\ IF is_pool_closed
         THEN /\ pool < MaxPools
              /\ pool' = pool + 1
              /\ pool_running' = TRUE
              /\ is_pool_closed' = FALSE
         ELSE UNCHANGED <<pool, pool_running, is_pool_closed>>
    /\ producers' = Append(SelectSeq(producers, Alive), NewProducer(urls))
    /\ cons_pc' = "get"
    /\ images' = <<>>
    /\ all_images' = <<>>
    /\ annot_arg' = <<>>
    /\ annot_calls' = 0
    /\ popped' = 0
    /\ UNCHANGED <<qbuf, qpipe>>

\* lines 43-45: slice one batch and fetch it through the pool, in argument order
image_urls_batch(p) == SubSeq(p.urls, p.i + 1, Min(p.i + cfg.batch_size, Len(p.urls)))

ProducerFetch(t) ==
    /\ t \in DOMAIN producers
    /\ producers[t].pc = "fetch"
    /\ producers[t].i < Len(producers[t].urls)
    /\ LET chunk == image_urls_batch(producers[t])
       IN IF pool_running
            THEN \E ok \in [1..Len(chunk) -> BOOLEAN] :
                   producers' = [producers EXCEPT
                       ![t].pc = "put",
                       ![t].batch = [k \in 1..Len(chunk) |->
                                        get_image_from_url(chunk[k], k - 1, ok[k])]]
            ELSE \* Pool.starmap on a closed pool raises ValueError: the thread dies
                 producers' = [producers EXCEPT ![t].pc = "dead"]
    /\ UNCHANGED <<pool, pool_running, is_pool_closed, qbuf, qpipe, cons_pc,
                   images, all_images, annot_arg, annot_calls, popped>>
    /\ UNCHANGED <<cfg, jpc, jobVars>>

\* line 46 on a queue constructed without its maximum size: put never blocks
ProducerPut_Unbounded(t) ==
    /\ t \in DOMAIN producers
    /\ producers[t].pc = "put"
    /\ qbuf' = Append(qbuf, producers[t].batch)
    /\ producers' = [producers EXCEPT ![t].pc = "fetch",
                                      ![t].batch = <<>>,
                                      ![t].i = @ + cfg.batch_size]
    /\ UNCHANGED <<pool, pool_running, is_pool_closed, qpipe, cons_pc,
                   images, all_images, annot_arg, annot_calls, popped>>
    /\ UNCHANGED <<cfg, jpc, jobVars>>

\* line 46: Queue.put takes a slot of the bounded semaphore, then buffers the object
ProducerPut(t) ==
    /\ t \in DOMAIN producers
    /\ producers[t].pc = "put"
    /\ Len(qbuf) + Len(qpipe) < cfg.q_len
    /\ qbuf' = Append(qbuf, producers[t].batch)
    /\ producers' = [producers EXCEPT ![t].pc = "fetch",
                                      ![t].batch = <<>>,
                                      ![t].i = @ + cfg.batch_size]
    /\ UNCHANGED <<pool, pool_running, is_pool_closed, qpipe, cons_pc,
                   images, all_images, annot_arg, annot_calls, popped>>
    /\ UNCHANGED <<cfg, jpc, jobVars>>

\* line 42: the range is exhausted, the thread's target returns
ProducerExit(t) ==
    /\ t \in DOMAIN producers
    /\ producers[t].pc = "fetch"
    /\ producers[t].i >= Len(producers[t].urls)
    /\ producers' = [producers EXCEPT ![t].pc = "dead"]
    /\ UNCHANGED <<pool, pool_running, is_pool_closed, qbuf, qpipe, cons_pc,
                   images, all_images, annot_arg, annot_calls, popped>>
    /\ UNCHANGED <<cfg, jpc, jobVars>>

\* multiprocessing.Queue's feeder thread moves a buffered object into the pipe
QueueFeed ==
    /\ qbuf # <<>>
    /\ qpipe' = Append(qpipe, Head(qbuf))
    /\ qbuf' = Tail(qbuf)
    /\ UNCHANGED <<pool, pool_running, is_pool_closed, producers, cons_pc,
                   images, all_images, annot_arg, annot_calls, popped>>
    /\ UNCHANGED <<cfg, jpc, jobVars>>

\* line 67: blocks until the pipe holds an object
ConsumerGet ==
    /\ cons_pc = "get"
    /\ qpipe # <<>>
    /\ images' = Head(qpipe)
    /\ qpipe' = Tail(qpipe)
    /\ popped' = popped + 1
    /\ cons_pc' = "annotate"
    /\ UNCHANGED <<pool, pool_running, is_pool_closed, qbuf, producers,
                   all_images, annot_arg, annot_calls>>
    /\ UNCHANGED <<cfg, jpc, jobVars>>

\* line 68 without its filter: every record is handed to the annotator
valid_images_Unfiltered(ims) == [k \in 1..Len(ims) |-> k]

\* line 68: positions of the records handed to the annotator
valid_images(ims) == SelectSeq([k \in 1..Len(ims) |-> k], LAMBDA k : ims[k].is_valid)

\* add_image_captions, lines 116-121, applied to the records at positions pos
add_image_captions(ims, pos) ==
    LET arg == [j \in 1..Len(pos) |-> ims[pos[j]]]
        captions == Captions(arg)
    IN [k \in 1..Len(ims) |->
          IF \E j \in 1..Len(pos) : pos[j] = k
            THEN add_caption(ims[k], captions[CHOOSE j \in 1..Len(pos) : pos[j] = k])
            ELSE ims[k]]

\* lines 68-70 with the annotator's exception caught: the batch is kept as fetched
ConsumerAnnotate_Swallow(raises) ==
    /\ cons_pc = "annotate"
    /\ LET pos == valid_images(images)
           arg == [j \in 1..Len(pos) |-> images[pos[j]]]
       IN /\ annot_arg' = arg
          /\ annot_calls' = annot_calls + 1
          /\ images' = IF raises THEN images ELSE add_image_captions(images, pos)
          /\ all_images' = all_images \o images'
          /\ cons_pc' = "check"
    /\ UNCHANGED <<pool, pool_running, is_pool_closed, qbuf, qpipe, producers, popped>>
    /\ UNCHANGED <<cfg, jpc, jobVars>>

\* lines 68-70; raises: the annotator (model.generate) throws
ConsumerAnnotate(raises) ==
    /\ cons_pc = "annotate"
    /\ LET pos == valid_images(images)
           arg == [j \in 1..Len(pos) |-> images[pos[j]]]
       IN /\ annot_arg' = arg
          /\ annot_calls' = annot_calls + 1
          /\ IF raises \/ (\E j \in 1..Len(arg) : ~arg[j].is_valid)
               THEN /\ cons_pc' = "raised"
                    /\ UNCHANGED <<images, all_images>>
               ELSE /\ images' = add_image_captions(images, pos)
                    /\ all_images' = all_images \o images'
                    /\ cons_pc' = "check"
    /\ UNCHANGED <<pool, pool_running, is_pool_closed, qbuf, qpipe, producers, popped>>
    /\ UNCHANGED <<cfg, jpc, jobVars>>

thread == producers[Len(producers)]

\* line 71: not thread.is_alive() and self.queue.empty()
ConsumerCheck ==
    /\ cons_pc = "check"
    /\ cons_pc' = IF ~Alive(thread) /\ qpipe = <<>> THEN "returned" ELSE "get"
    /\ UNCHANGED <<pool, pool_running, is_pool_closed, qbuf, qpipe, producers,
                   images, all_images, annot_arg, annot_calls, popped>>
    /\ UNCHANGED <<cfg, jpc, jobVars>>

\* lines 83-90
close_pool ==
    /\ IF ~is_pool_closed
         THEN /\ pool_running' = FALSE
              /\ is_pool_closed' = TRUE
         ELSE UNCHANGED <<pool_running, is_pool_closed>>
    /\ UNCHANGED <<pool, qbuf, qpipe, producers, cons_pc, images, all_images,
                   annot_arg, annot_calls, popped>>



\* ------------------------------------------------------------------------
\* The job identity key: strings are sequences of characters
\* ------------------------------------------------------------------------
Digit(d) == <<"0", "1", "2", "3", "4", "5", "6", "7", "8", "9">>[d + 1]

RECURSIVE IntStr(_)
\* str(n) of a non-negative int
IntStr(n) == IF n < 10 THEN <<Digit(n)>> ELSE IntStr(n \div 10) \o <<Digit(n % 10)>>

\* str(b) of a bool
BoolStr(b) == IF b THEN <<"T", "r", "u", "e">> ELSE <<"F", "a", "l", "s", "e">>

\* ImageCaptionProcessor.__str__
processor_str(c) ==
    c.hf_model \o <<",">> \o c.device \o <<",">> \o IntStr(c.max_new_tokens)
        \o <<",">> \o BoolStr(c.skip_special_tokens)

\* BatchImageCaptions.__str__ with batch_size left out
bic_str_NoBatchSize(c) ==
    IntStr(c.n_cpus) \o <<",">> \o c.device \o <<",">> \o processor_str(c)

\* BatchImageCaptions.__str__
bic_str(c) ==
    IntStr(c.n_cpus) \o <<",">> \o IntStr(c.batch_size) \o <<",">> \o c.device
        \o <<",">> \o processor_str(c)

\* ImageCaptionsJobManager.get_processing_id
get_processing_id(c, file_path, out_path) ==
    bic_str(c) \o <<"|">> \o file_path \o <<"|">> \o out_path

\* constructor arguments: the defaults, with a short model name and a small batch_size
BaseConfig ==
    [n_cpus |-> 4, q_len |-> 2, batch_size |-> 2, device |-> <<"c", "p", "u">>,
     hf_model |-> <<"m">>, max_new_tokens |-> 20, skip_special_tokens |-> TRUE]

\* ------------------------------------------------------------------------
\* The status store and the files
\* ------------------------------------------------------------------------
EmptyStore == [k \in {} |-> None]

StorePut(store, k, v) == [x \in DOMAIN store \cup {k} |-> IF x = k THEN v ELSE store[x]]

get_new_file_info(file_path, out_path) ==
    [file_path |-> file_path, out_path |-> out_path, n_batches |-> 0, is_done |-> FALSE,
     cpu_usage |-> <<>>, gpu_usage |-> <<>>, iter_time |-> <<>>, ram_usage |-> <<>>]

NoFile == [exists |-> FALSE, data |-> <<>>]

InPaths == {<<"a">>, <<"b">>}
OutPaths == {<<"x">>, <<"y">>}

NoCall == [files |-> <<>>, out_paths |-> <<>>]

\* no batch has ended process_files with an exception
NoFailure == [key |-> <<>>, done |-> 0, begun |-> FALSE]

InitJobIdle ==
    /\ inputs = [f \in InPaths |-> <<>>]
    /\ status = EmptyStore
    /\ disk = [st |-> "absent", data |-> EmptyStore]
    /\ outfile = [o \in OutPaths |-> NoFile]
    /\ outbuf = <<>>
    /\ call = NoCall
    /\ fidx = 0
    /\ bid = 0
    /\ err = None
    /\ crashes = 0
    /\ clean_kills = TRUE
    /\ cfg2 = cfg
    /\ lookup = None
    /\ failed = NoFailure
    /\ saved = EmptyStore
    /\ single = <<>>

\* ------------------------------------------------------------------------
\* The pipeline driven directly by a caller
\* ------------------------------------------------------------------------
PipeConfigs ==
    {[BaseConfig EXCEPT !.q_len = q, !.batch_size = b] : q \in {1, 2}, b \in {1, 2}}

InitPipe ==
    /\ cfg \in PipeConfigs
    /\ InitPipeline
    /\ jpc = "pipe"
    /\ InitJobIdle

CallPipeline ==
    /\ jpc = "pipe"
    /\ \E urls \in UrlLists : Invoke(urls)
    /\ single' = <<>>
    /\ UNCHANGED <<cfg, jpc, inputs, status, disk, outfile, outbuf, call, fidx, bid, err,
                   crashes, clean_kills, cfg2, lookup, failed, saved>>

\* the caller, between two invocations of the pipeline, asks the processor for
\* the record of one identifier
CallSingle ==
    /\ jpc = "pipe"
    /\ cons_pc = "idle"
    /\ \E url \in {"u", "v"}, ok \in BOOLEAN :
          single' = <<get_image_with_caption_from_url(url, ok)>>
    /\ UNCHANGED <<cfg, pipeVars, jpc, inputs, status, disk, outfile, outbuf, call, fidx,
                   bid, err, crashes, clean_kills, cfg2, lookup, failed, saved>>

\* the caller receives the list or the exception
PipelineReturns ==
    /\ jpc = "pipe"
    /\ cons_pc \in {"returned", "raised"}
    /\ cons_pc' = "idle"
    /\ images' = <<>>
    /\ all_images' = <<>>
    /\ annot_arg' = <<>>
    /\ annot_calls' = 0
    /\ popped' = 0
    /\ UNCHANGED <<cfg, jpc, jobVars, pool, pool_running, is_pool_closed, qbuf, qpipe,
                   producers>>

CallClosePool ==
    /\ jpc = "pipe"
    /\ cons_pc = "idle"
    /\ close_pool
    /\ UNCHANGED <<cfg, jpc, jobVars>>

NextPipe ==
    \/ CallPipeline
    \/ \E t \in 1..MaxProducers : ProducerFetch(t)
    \/ \E t \in 1..MaxProducers : ProducerPut(t)
    \/ \E t \in 1..MaxProducers : ProducerExit(t)
    \/ QueueFeed
    \/ ConsumerGet
    \/ \E raises \in BOOLEAN : ConsumerAnnotate(raises)
    \/ ConsumerCheck
    \/ PipelineReturns
    \/ CallClosePool
    \/ CallSingle

SpecPipe == InitPipe /\ [][NextPipe]_vars

\* ------------------------------------------------------------------------
\* ImageCaptionsJobManager / CSVImageCaptionsJobManager
\* ------------------------------------------------------------------------
picture_url_column == "picture_url"
picture_description_column == "picture_description"

\* batch.columns, the header row of the output
Header == <<picture_url_column, picture_description_column>>

RECURSIVE Chunks(_, _)
\* pd.read_csv(chunksize=n) over the rows of a file
Chunks(rows, n) ==
    IF rows = <<>> THEN <<>>
    ELSE <<SubSeq(rows, 1, Min(n, Len(rows)))>> \o Chunks(SubSeq(rows, n + 1, Len(rows)), n)

\* what _iter_batches can yield for one input file: no batch at all, one batch
\* without rows (a file that has only its header line), or the chunks of its rows
FileShapes(n) ==
    {<<>>, << <<>> >>} \cup {Chunks(SubSeq(<<"u", "v", "w", "x">>, 1, r), n) : r \in 1..MaxRows}

_iter_batches(path) == inputs[path]

get_batch_picture_urls(batch) == batch

get_batch_with_image_captions(batch, processed_images) ==
    [k \in 1..Len(batch) |-> <<batch[k], processed_images[k].caption>>]

\* what save_batch hands to the csv writer
save_batch(b, batch) == (IF b = 1 THEN <<Header>> ELSE <<>>) \o batch

file_path == call.files[fidx]
out_path == call.out_paths[fidx]
pid == get_processing_id(cfg, file_path, out_path)

\* line 70 without the lookup: the file always starts from a new record
f_status_AlwaysNew == get_new_file_info(file_path, out_path)

\* line 70: self.status.data.get(pid, self.get_new_file_info(...))
f_status == IF pid \in DOMAIN status THEN status[pid] ELSE get_new_file_info(file_path, out_path)

\* validate_processing without the check of line 105
validate_processing_NoConflict(st) == IF st.is_done THEN "skip" ELSE "process"

\* validate_processing with line 105 testing the output alone
validate_processing_AnyExisting(st) ==
    IF outfile[st.out_path].exists /\ ~st.is_done THEN "conflict"
    ELSE IF st.is_done THEN "skip"
    ELSE "process"

\* validate_processing: "conflict" is the FileExistsError
validate_processing(st) ==
    IF outfile[st.out_path].exists /\ st.n_batches = 0 THEN "conflict"
    ELSE IF st.is_done THEN "skip"
    ELSE "process"

\* notify_batch_is_done without line 157: the elapsed time is not appended
notify_batch_is_done_NoIterTime(st) ==
    [st EXCEPT !.n_batches = @ + 1,
               !.gpu_usage = Append(@, "gpu"),
               !.cpu_usage = Append(@, "cpu"),
               !.ram_usage = Append(@, "ram")]

\* notify_batch_is_done, lines 153-157
notify_batch_is_done(st) ==
    [st EXCEPT !.n_batches = @ + 1,
               !.gpu_usage = Append(@, "gpu"),
               !.cpu_usage = Append(@, "cpu"),
               !.ram_usage = Append(@, "ram"),
               !.iter_time = Append(@, "elapsed")]

\* FileHandler.save opens the status file with mode "w": the file is empty until
\* the document is written and the file closed
Truncated == [st |-> "truncated", data |-> EmptyStore]

\* the output file object is closed: what it buffered reaches the file
CloseOut(o) ==
    /\ outfile' = [outfile EXCEPT ![o].data = @ \o outbuf]
    /\ outbuf' = <<>>

ResetPipeline ==
    /\ pool' = 0
    /\ pool_running' = FALSE
    /\ is_pool_closed' = TRUE
    /\ qbuf' = <<>>
    /\ qpipe' = <<>>
    /\ producers' = <<>>
    /\ cons_pc' = "idle"
    /\ images' = <<>>
    /\ all_images' = <<>>
    /\ annot_arg' = <<>>
    /\ annot_calls' = 0
    /\ popped' = 0

\* the locals of get_image_captions_from_urls are gone
LeavePipeline ==
    /\ cons_pc' = "idle"
    /\ images' = <<>>
    /\ all_images' = <<>>
    /\ annot_arg' = <<>>
    /\ annot_calls' = 0
    /\ popped' = 0
    /\ UNCHANGED <<pool, pool_running, is_pool_closed, qbuf, qpipe, producers>>

\* a failure is remembered until the file has been begun again
ForgetBegun == failed' = IF failed.begun THEN NoFailure ELSE failed

\* an exception leaves process_files
Raise(e) ==
    /\ jpc' = "ready"
    /\ err' = e
    /\ call' = NoCall
    /\ fidx' = 0
    /\ bid' = 0

\* __init__, lines 44-46: the status file is loaded, the pipeline constructed
StartProcess ==
    /\ jpc = "down"
    /\ disk.st # "truncated"
    /\ status' = IF disk.st = "absent" THEN EmptyStore ELSE disk.data
    /\ ResetPipeline
    /\ jpc' = "ready"
    /\ err' = None
    /\ UNCHANGED <<cfg, inputs, disk, outfile, outbuf, call, fidx, bid, aux>>

\* __init__ on a status file that holds no complete document: json.load raises
StartProcessFails ==
    /\ jpc = "down"
    /\ disk.st = "truncated"
    /\ err' = "JSONDecodeError"
    /\ UNCHANGED <<cfg, pipeVars, jpc, inputs, status, disk, outfile, outbuf, call,
                   fidx, bid, aux>>

\* the argument lists a caller passes to process_files
Calls ==
    {[files |-> <<<<"a">>, <<"b">>>>, out_paths |-> <<<<"x">>, <<"y">>>>],
     [files |-> <<<<"a">>, <<"b">>>>, out_paths |-> <<<<"x">>>>],
     [files |-> <<<<"a">>>>, out_paths |-> <<<<"x">>, <<"y">>>>]}

\* process_files without the assertion of line 220: zip stops at the shorter list
ProcessFiles_NoAssert(c) ==
    /\ jpc = "ready"
    /\ cons_pc = "idle"
    /\ LET n == Min(Len(c.files), Len(c.out_paths))
       IN call' = [files |-> SubSeq(c.files, 1, n), out_paths |-> SubSeq(c.out_paths, 1, n)]
    /\ fidx' = 1
    /\ jpc' = "file"
    /\ err' = None
    /\ UNCHANGED <<cfg, pipeVars, inputs, status, disk, outfile, outbuf, bid, aux>>

\* process_files, line 220: the assertion, then the first file
ProcessFiles(c) ==
    /\ jpc = "ready"
    /\ cons_pc = "idle"
    /\ IF Len(c.files) = Len(c.out_paths)
         THEN /\ call' = c
              /\ fidx' = 1
              /\ jpc' = "file"
              /\ err' = None
         ELSE /\ err' = "AssertionError"
              /\ UNCHANGED <<call, fidx, jpc>>
    /\ UNCHANGED <<cfg, pipeVars, inputs, status, disk, outfile, outbuf, bid, aux>>

\* __process_file, lines 69-74
ProcessFileBegin ==
    /\ jpc = "file"
    /\ fidx <= Len(call.files)
    /\ LET v == validate_processing(f_status)
       IN \/ /\ v = "conflict"
             /\ Raise("FileExistsError")
             /\ UNCHANGED <<status, outfile>>
          \/ /\ v = "skip"
             /\ fidx' = fidx + 1
             /\ UNCHANGED <<jpc, err, call, bid, status, outfile>>
          \/ /\ v = "process"
             /\ outfile' = [outfile EXCEPT ![out_path].exists = TRUE]
             /\ status' = StorePut(status, pid, f_status)
             /\ bid' = 0
             /\ jpc' = "iter"
             /\ UNCHANGED <<err, call, fidx>>
    /\ failed' = IF failed.key = pid THEN [failed EXCEPT !.begun = TRUE] ELSE failed
    /\ UNCHANGED <<cfg, pipeVars, inputs, disk, outbuf, crashes, clean_kills, cfg2, lookup,
                   saved, single>>

\* lines 75 and 122-123 without the test of line 76: every batch is handed to
\* the pipeline
NextBatch_NoSkip ==
    /\ jpc = "iter"
    /\ bid < Len(_iter_batches(file_path))
    /\ bid' = bid + 1
    /\ Invoke(get_batch_picture_urls(_iter_batches(file_path)[bid + 1]))
    /\ jpc' = "pipeline"
    /\ ForgetBegun
    /\ UNCHANGED <<cfg, inputs, status, disk, outfile, outbuf, call, fidx, err,
                   crashes, clean_kills, cfg2, lookup, saved, single>>

\* lines 75-77 and 122-123: the next batch of the file; it is skipped or handed
\* to the pipeline
NextBatch ==
    /\ jpc = "iter"
    /\ bid < Len(_iter_batches(file_path))
    /\ bid' = bid + 1
    /\ IF bid + 1 > f_status.n_batches
         THEN /\ Invoke(get_batch_picture_urls(_iter_batches(file_path)[bid + 1]))
              /\ jpc' = "pipeline"
         ELSE UNCHANGED <<pipeVars, jpc>>
    /\ ForgetBegun
    /\ UNCHANGED <<cfg, inputs, status, disk, outfile, outbuf, call, fidx, err,
                   crashes, clean_kills, cfg2, lookup, saved, single>>

\* lines 124-125: the pipeline returned the records of the batch
BatchWritten ==
    /\ jpc = "pipeline"
    /\ cons_pc = "returned"
    /\ LET batch == _iter_batches(file_path)[bid]
       IN IF Len(all_images) # Len(batch)
            THEN \* assigning a column of another length raises ValueError
                 /\ Raise("ValueError")
                 /\ CloseOut(out_path)
                 /\ failed' = [key |-> pid, done |-> bid - 1, begun |-> FALSE]
            ELSE /\ outbuf' = outbuf \o
                       save_batch(bid, get_batch_with_image_captions(batch, all_images))
                 /\ jpc' = "notify"
                 /\ UNCHANGED <<outfile, err, call, fidx, bid, failed>>
    /\ LeavePipeline
    /\ UNCHANGED <<cfg, inputs, status, disk, crashes, clean_kills, cfg2, lookup, saved,
                   single>>

\* the annotator's exception leaves get_image_captions_from_urls, process_batch,
\* the with block and process_files
BatchRaised ==
    /\ jpc = "pipeline"
    /\ cons_pc = "raised"
    /\ CloseOut(out_path)
    /\ Raise("AnnotatorError")
    /\ failed' = [key |-> pid, done |-> bid - 1, begun |-> FALSE]
    /\ LeavePipeline
    /\ UNCHANGED <<cfg, inputs, status, disk, crashes, clean_kills, cfg2, lookup, saved,
                   single>>

\* notify_batch_is_done, lines 153-158, up to the opening of the status file
NotifyBatchIsDone ==
    /\ jpc = "notify"
    /\ status' = [status EXCEPT ![pid] = notify_batch_is_done(@)]
    /\ disk' = Truncated
    /\ jpc' = "save_batch"
    /\ UNCHANGED <<cfg, pipeVars, inputs, outfile, outbuf, call, fidx, bid, err, aux>>

\* lines 72 and 78-80: the loop is over, the output file is closed, the file is
\* marked done; line 79 reads bid, which is unbound when there was no batch
FileDone ==
    /\ jpc = "iter"
    /\ bid = Len(_iter_batches(file_path))
    /\ CloseOut(out_path)
    /\ status' = [status EXCEPT ![pid].is_done = TRUE]
    /\ IF bid = 0
         THEN /\ Raise("UnboundLocalError")
              /\ UNCHANGED disk
         ELSE /\ disk' = Truncated
              /\ jpc' = "save_done"
              /\ UNCHANGED <<err, call, fidx, bid>>
    /\ ForgetBegun
    /\ UNCHANGED <<cfg, pipeVars, inputs, crashes, clean_kills, cfg2, lookup, saved, single>>

\* FileHandler.save, line 51: the document is written and the file closed
SaveData ==
    /\ jpc \in {"save_batch", "save_done"}
    /\ disk' = [st |-> "valid", data |-> status]
    /\ IF jpc = "save_batch"
         THEN /\ jpc' = "iter"
              /\ UNCHANGED fidx
         ELSE /\ jpc' = "file"
              /\ fidx' = fidx + 1
    /\ saved' = status
    /\ UNCHANGED <<cfg, pipeVars, inputs, status, outfile, outbuf, call, bid, err,
                   crashes, clean_kills, cfg2, lookup, failed, single>>

\* process_files, line 223
ProcessFilesReturns ==
    /\ jpc = "file"
    /\ fidx > Len(call.files)
    /\ close_pool
    /\ jpc' = "ready"
    /\ call' = NoCall
    /\ fidx' = 0
    /\ bid' = 0
    /\ UNCHANGED <<cfg, inputs, status, disk, outfile, outbuf, err, aux>>

OutputOpen == jpc \in {"iter", "pipeline", "notify", "save_batch"}

\* the buffer of the output file object spills into the file
OutputSpills ==
    /\ OutputOpen
    /\ outbuf # <<>>
    /\ outfile' = [outfile EXCEPT ![out_path].data = Append(@, Head(outbuf))]
    /\ outbuf' = Tail(outbuf)
    /\ UNCHANGED <<cfg, pipeVars, jpc, inputs, status, disk, call, fidx, bid, err, aux>>

\* the record of batch bid has just been flushed, nothing else has been started
AfterFlush ==
    /\ jpc = "iter"
    /\ bid >= 1
    /\ bid = f_status.n_batches
    /\ disk = [st |-> "valid", data |-> status]

\* the process is killed: what it held in memory is lost, the files stay
Crash ==
    /\ jpc \notin {"down", "pipe"}
    /\ crashes < MaxCrashes
    /\ crashes' = crashes + 1
    /\ jpc' = "down"
    /\ status' = EmptyStore
    /\ outbuf' = <<>>
    /\ call' = NoCall
    /\ fidx' = 0
    /\ bid' = 0
    /\ err' = None
    /\ clean_kills' = (clean_kills /\ AfterFlush)
    /\ ResetPipeline
    /\ ForgetBegun
    /\ UNCHANGED <<cfg, inputs, disk, outfile, cfg2, lookup, saved, single>>

JobConfigs == {[BaseConfig EXCEPT !.batch_size = b] : b \in {1, 2}}

InitJob ==
    /\ cfg \in JobConfigs
    /\ InitPipeline
    /\ jpc = "down"
    /\ inputs \in [InPaths -> FileShapes(cfg.batch_size)]
    /\ status = EmptyStore
    /\ disk = [st |-> "absent", data |-> EmptyStore]
    /\ outfile = [o \in OutPaths |-> NoFile]
    /\ outbuf = <<>>
    /\ call = NoCall
    /\ fidx = 0
    /\ bid = 0
    /\ err = None
    /\ crashes = 0
    /\ clean_kills = TRUE
    /\ cfg2 = cfg
    /\ lookup = None
    /\ failed = NoFailure
    /\ saved = EmptyStore
    /\ single = <<>>

NextJob ==
    \/ StartProcess
    \/ StartProcessFails
    \/ \E c \in Calls : ProcessFiles(c)
    \/ ProcessFileBegin
    \/ NextBatch
    \/ \E t \in 1..MaxProducers : ProducerFetch(t)
    \/ \E t \in 1..MaxProducers : ProducerPut(t)
    \/ \E t \in 1..MaxProducers : ProducerExit(t)
    \/ QueueFeed
    \/ ConsumerGet
    \/ \E raises \in BOOLEAN : ConsumerAnnotate(raises)
    \/ ConsumerCheck
    \/ BatchWritten
    \/ BatchRaised
    \/ NotifyBatchIsDone
    \/ FileDone
    \/ SaveData
    \/ ProcessFilesReturns
    \/ OutputSpills
    \/ Crash

SpecJob == InitJob /\ [][NextJob]_vars

\* ------------------------------------------------------------------------
\* A caller that goes on with the remaining file after the annotator failed
\* ------------------------------------------------------------------------
RestCall == [files |-> <<<<"b">>>>, out_paths |-> <<<<"y">>>>]

\* process_files is called for the second file alone on the manager whose last
\* call ended with the annotator's exception
ProcessRest ==
    /\ err = "AnnotatorError"
    /\ ProcessFiles(RestCall)

\* the first file has at most one batch
InitRetry ==
    /\ InitJob
    /\ Len(inputs[<<"a">>]) <= 1

NextRetry ==
    \/ NextJob
    \/ ProcessRest

SpecRetry == InitRetry /\ [][NextRetry]_vars

\* ------------------------------------------------------------------------
\* Two job managers over one status store
\* ------------------------------------------------------------------------
KeyConfigs ==
    {[BaseConfig EXCEPT !.n_cpus = n, !.batch_size = b, !.q_len = q] :
        n \in {1, 4, 11}, b \in {1, 2, 12, 16}, q \in {1, 2}}

InitKey ==
    /\ cfg \in KeyConfigs
    /\ cfg2 \in KeyConfigs
    /\ InitPipeline
    /\ jpc = "key"
    /\ inputs = [f \in InPaths |-> <<>>]
    /\ status = EmptyStore
    /\ disk = [st |-> "absent", data |-> EmptyStore]
    /\ outfile = [o \in OutPaths |-> NoFile]
    /\ outbuf = <<>>
    /\ call \in {[files |-> <<f>>, out_paths |-> <<o>>] : f \in InPaths, o \in OutPaths}
    /\ fidx = 1
    /\ bid = 0
    /\ err = None
    /\ crashes = 0
    /\ clean_kills = TRUE
    /\ lookup = None
    /\ failed = NoFailure
    /\ saved = EmptyStore
    /\ single = <<>>

\* the first manager, lines 69-73 and 153: its record enters the store with a batch done
KeyRecord ==
    /\ jpc = "key"
    /\ status' = StorePut(status, pid, notify_batch_is_done(f_status))
    /\ jpc' = "key_recorded"
    /\ UNCHANGED <<cfg, pipeVars, inputs, disk, outfile, outbuf, call, fidx, bid, err, aux>>

\* the second manager, lines 69-70: the record it starts from
KeyLookup ==
    /\ jpc = "key_recorded"
    /\ lookup' = IF get_processing_id(cfg2, file_path, out_path) \in DOMAIN status
                   THEN "resumed" ELSE "new"
    /\ jpc' = "key_looked"
    /\ UNCHANGED <<cfg, pipeVars, inputs, status, disk, outfile, outbuf, call, fidx, bid,
                   err, crashes, clean_kills, cfg2, failed, saved,
                   single>>

NextKey ==
    \/ KeyRecord
    \/ KeyLookup

SpecKey == InitKey /\ [][NextKey]_vars

\* ------------------------------------------------------------------------
\* Properties of the acquisition pipeline
\* ------------------------------------------------------------------------
IsValid(im) == im.is_valid

\* C3: order preservation. Whenever get_image_captions_from_urls returns, the
\* list it returns has the length of the identifier list it was called with and
\* the record at each position carries the identifier of that position.
C3_OrderPreserved ==
    cons_pc = "returned" =>
        /\ Len(all_images) = Len(thread.urls)
        /\ \A k \in 1..Len(all_images) :
              k <= Len(thread.urls) => all_images[k].url = thread.urls[k]

\* C4: pipeline termination. The consumer is never left blocked in queue.get()
\* when nothing can arrive any more: every producer thread has finished and the
\* queue holds no object, so the invocation can never return.
C4_NeverStuckOnPop ==
    ~ ( /\ cons_pc = "get"
        /\ qbuf = <<>>
        /\ qpipe = <<>>
        /\ \A t \in DOMAIN producers : ~Alive(producers[t]) )

\* C5: invalid passthrough. The returned list has one record per input
\* identifier; a record whose fetch failed is at the position of its identifier,
\* carries the identifier and its slot index in the batch, and has no annotation.
C5_InvalidPassthrough ==
    cons_pc = "returned" =>
        /\ Len(all_images) = Len(thread.urls)
        /\ \A k \in 1..Min(Len(all_images), Len(thread.urls)) :
              ~all_images[k].is_valid =>
                  /\ all_images[k].url = thread.urls[k]
                  /\ all_images[k].idx = (k - 1) % cfg.batch_size
                  /\ all_images[k].caption = None

\* C6: all-valid annotation coverage. Every batch popped from the queue leads to
\* exactly one add_image_captions call, whose argument is exactly the batch's
\* valid records in slot order; once the call has returned every valid record of
\* the batch, and of the accumulated result, has a caption.
C6_AnnotateExactlyValid ==
    /\ cons_pc \in {"get", "check", "returned", "raised"} => annot_calls = popped
    /\ cons_pc = "annotate" => annot_calls = popped - 1
    /\ cons_pc \in {"check", "raised"} =>
          LET v == SelectSeq(images, IsValid)
          IN /\ Len(annot_arg) = Len(v)
             /\ \A j \in 1..Len(annot_arg) :
                   /\ annot_arg[j].is_valid
                   /\ j <= Len(v) => /\ annot_arg[j].url = v[j].url
                                     /\ annot_arg[j].idx = v[j].idx
    /\ cons_pc = "check" =>
          \A k \in 1..Len(images) : images[k].is_valid => images[k].caption # None
    /\ \A k \in 1..Len(all_images) :
          all_images[k].is_valid => all_images[k].caption # None

\* a batch with a valid and an invalid record has been annotated
C6_Witness ==
    /\ cons_pc = "check"
    /\ annot_calls = 1
    /\ \E k \in 1..Len(images) : images[k].is_valid
    /\ \E k \in 1..Len(images) : ~images[k].is_valid

\* ------------------------------------------------------------------------
\* Properties of the job manager
\* ------------------------------------------------------------------------
RECURSIVE Flatten(_)
Flatten(batches) == IF batches = <<>> THEN <<>> ELSE Head(batches) \o Flatten(Tail(batches))

\* the identifier column of an output file
Column(data) == [k \in 1..Len(data) |-> data[k][1]]

\* the identifier column an uninterrupted run writes for an input file
ExpectedColumn(f) ==
    IF inputs[f] = <<>> THEN <<>> ELSE <<picture_url_column>> \o Flatten(inputs[f])

Persisted(k) == disk.st = "valid" /\ k \in DOMAIN disk.data

\* C1: resume idempotence. When the run was only ever killed right after the
\* flush of a batch's progress record, a file that the persisted store marks done
\* has the output of an uninterrupted run: the header and every row of every
\* batch exactly once, in batch order.
C1_ResumeIdempotent ==
    clean_kills =>
        \A f \in InPaths, o \in OutPaths :
            LET k == get_processing_id(cfg, f, o)
            IN (Persisted(k) /\ disk.data[k].is_done) =>
                   Column(outfile[o].data) = ExpectedColumn(f)

\* C2: a crash while a file is in progress never makes a batch appear twice in
\* the output or count twice: no row (and no header) is in an output file more
\* than once, and no persisted record counts more batches than the file has.
C2_NoBatchTwice ==
    /\ \A o \in OutPaths : \A i, j \in 1..Len(outfile[o].data) :
          i # j => outfile[o].data[i][1] # outfile[o].data[j][1]
    /\ \A k \in DOMAIN disk.data :
          disk.data[k].n_batches <= Len(inputs[disk.data[k].file_path])

\* C7: conflict detection. Processing a file whose output path exists while its
\* record counts zero batches raises the file-conflict error; the step fetches,
\* annotates and writes nothing and leaves the status store, in memory and on
\* disk, as it was.
C7_ConflictLeavesStore ==
    [][(ProcessFileBegin /\ outfile[out_path].exists /\ f_status.n_batches = 0) =>
           /\ err' = "FileExistsError"
           /\ jpc' = "ready"
           /\ status' = status
           /\ disk' = disk
           /\ outfile' = outfile
           /\ outbuf' = outbuf
           /\ UNCHANGED pipeVars]_vars

\* the conflict was raised while the store holds the record of another file
C7_Witness ==
    /\ err = "FileExistsError"
    /\ jpc = "ready"
    /\ disk.st = "valid"
    /\ \E k \in DOMAIN disk.data : disk.data[k].is_done

\* C8: completed-file skip. Processing a file whose record has is_done set skips
\* it without an error, whatever its n_batches: the loop moves to the next file,
\* nothing is fetched, annotated or written and the record stays as it is.
C8_DoneFileSkipped ==
    [][(ProcessFileBegin /\ f_status.is_done) =>
           /\ jpc' = "file"
           /\ fidx' = fidx + 1
           /\ err' = err
           /\ status' = status
           /\ disk' = disk
           /\ outfile' = outfile
           /\ outbuf' = outbuf
           /\ UNCHANGED pipeVars]_vars

\* C9: identity sensitivity. Two managers whose configurations differ only in
\* batch_size, or only in n_cpus, have different keys for the same pair of
\* paths, and the second never finds the record the first one wrote.
DiffersOnlyIn(field) ==
    /\ cfg[field] # cfg2[field]
    /\ \A g \in DOMAIN cfg \ {field} : cfg[g] = cfg2[g]

C9_IdentitySensitive ==
    (DiffersOnlyIn("batch_size") \/ DiffersOnlyIn("n_cpus")) =>
        /\ get_processing_id(cfg, file_path, out_path)
               # get_processing_id(cfg2, file_path, out_path)
        /\ jpc = "key_looked" => lookup = "new"

\* the second manager, with another batch_size, has looked its key up
C9_Witness ==
    /\ jpc = "key_looked"
    /\ DiffersOnlyIn("batch_size")
    /\ lookup = "new"

\* C10: process_files called with lists of different lengths ends with the
\* assertion's error at once: no file is opened or created, nothing is fetched
\* or annotated, and the status store stays as it is.
C10_MismatchFailsFirst ==
    [][\A c \in Calls :
          (ProcessFiles(c) /\ Len(c.files) # Len(c.out_paths)) =>
              /\ err' = "AssertionError"
              /\ jpc' = "ready"
              /\ status' = status
              /\ disk' = disk
              /\ outfile' = outfile
              /\ outbuf' = outbuf
              /\ UNCHANGED pipeVars]_vars

\* a mismatched call has failed in a process that had already completed a file
C10_Witness ==
    /\ err = "AssertionError"
    /\ jpc = "ready"
    /\ disk.st = "valid"
    /\ \E k \in DOMAIN disk.data : disk.data[k].is_done

\* ------------------------------------------------------------------------
\* Properties of error handling
\* ------------------------------------------------------------------------
\* this step ends process_files with an exception while file fidx is processed
FatalStop == jpc \in {"file", "iter", "pipeline"} /\ jpc' = "ready" /\ err' # None

\* every file before fidx is marked done in the status file
FilesBeforeDone ==
    \A j \in 1..(fidx - 1) :
        LET k == get_processing_id(cfg, call.files[j], call.out_paths[j])
        IN /\ disk'.st = "valid"
           /\ k \in DOMAIN disk'.data
           /\ disk'.data[k].is_done

\* this step begins, for the first time since, the file a batch of which ended
\* process_files with an exception
BeginsFailedFile == ProcessFileBegin /\ failed.key = pid /\ ~failed.begun

ResumesFailedFile ==
    /\ jpc' = "iter"
    /\ err' = err
    /\ pid \in DOMAIN status'
    /\ status'[pid].n_batches = failed.done
    /\ ~status'[pid].is_done
    /\ disk' = disk

\* C11 as stated: when an exception stops process_files at file i, at any of its
\* batches, every file before i is marked done in the status file, and the next
\* time file i is begun under the same configuration it is resumed at its last
\* completed batch, without an error.
C11_ResumableAfterError ==
    [][/\ FatalStop => FilesBeforeDone
       /\ BeginsFailedFile => ResumesFailedFile]_vars

\* C11 amended: when an exception stops process_files at file i, every file
\* before i is marked done in the status file; if file i had completed at least
\* one batch, the next time it is begun it is resumed at its last completed
\* batch without an error; if the exception came in its first batch, beginning
\* it again raises the file-conflict error and leaves the store as it is.
C11_ResumableAfterFirstBatch ==
    [][/\ FatalStop => FilesBeforeDone
       /\ (BeginsFailedFile /\ failed.done >= 1) => ResumesFailedFile
       /\ (BeginsFailedFile /\ failed.done = 0) =>
              /\ err' = "FileExistsError"
              /\ jpc' = "ready"
              /\ status' = status
              /\ disk' = disk]_vars

\* the second file of a call failed in its second batch and has been begun again:
\* the first file is marked done in the status file, the second is at batch one
C11_Witness ==
    /\ jpc = "iter"
    /\ bid = 0
    /\ fidx = 2
    /\ failed.key = pid
    /\ failed.begun
    /\ failed.done = 1
    /\ f_status.n_batches = 1
    /\ Persisted(get_processing_id(cfg, call.files[1], call.out_paths[1]))

\* the telemetry lists of a record
Telemetry(st) == <<st.cpu_usage, st.gpu_usage, st.ram_usage, st.iter_time>>

\* the record counts n batches and holds n samples of each kind
CountsBatches(st, n) ==
    /\ st.n_batches = n
    /\ \A i \in 1..4 : Len(Telemetry(st)[i]) = n

\* C12: an exception of the annotator is not swallowed. The step in which the
\* annotator throws ends the consumer loop without adding the batch to the
\* result; the exception then leaves the file's processing as the error of
\* process_files: that step adds to the output only rows written for earlier
\* batches, none of the failing batch, and leaves the progress record, in
\* memory and in the status file, counting exactly the batches before the
\* failing one, with as many telemetry samples.
C12_AnnotatorErrorPropagates ==
    [][/\ ConsumerAnnotate(TRUE) =>
              /\ cons_pc' = "raised"
              /\ all_images' = all_images
       /\ (jpc = "pipeline" /\ cons_pc = "raised" /\ (jpc' # jpc \/ cons_pc' # cons_pc)
               /\ jpc' # "down") =>
              /\ jpc' = "ready"
              /\ err' = "AnnotatorError"
              /\ status' = status
              /\ disk' = disk
              /\ CountsBatches(status[pid], bid - 1)
              /\ Persisted(pid) => CountsBatches(disk.data[pid], bid - 1)
              /\ outfile'[out_path].data = outfile[out_path].data \o outbuf
              /\ \A i \in 1..Len(outbuf), j \in 1..Len(_iter_batches(file_path)[bid]) :
                     outbuf[i][1] # _iter_batches(file_path)[bid][j]]_vars

\* the annotator's exception on the second batch of a file has ended
\* process_files: the output holds the header and the row of the first batch
C12_Witness ==
    /\ jpc = "ready"
    /\ err = "AnnotatorError"
    /\ failed.done = 1
    /\ ~failed.begun
    /\ \E o \in OutPaths : Len(outfile[o].data) = 2
    /\ \E k \in DOMAIN status : status[k].n_batches = 1 /\ ~status[k].is_done

\* C13: whenever process_files ends, after its last file or early with the
\* exception of a file, the worker pool of the pipeline has been released:
\* is_pool_closed is true.
C13_PoolReleasedAtEnd ==
    [][(jpc \in {"file", "iter", "pipeline"} /\ jpc' = "ready") => is_pool_closed']_vars

\* ------------------------------------------------------------------------
\* Properties of durability
\* ------------------------------------------------------------------------
\* the rows of batch b of input f, and the header before the first, are in the
\* file system's copy of output o
Durable(f, o, b) ==
    /\ \A j \in 1..Len(inputs[f][b]) :
          \E i \in 1..Len(outfile[o].data) : outfile[o].data[i][1] = inputs[f][b][j]
    /\ b = 1 => \E i \in 1..Len(outfile[o].data) : outfile[o].data[i] = Header

DurableCount(f, o) == Cardinality({b \in 1..Len(inputs[f]) : Durable(f, o, b)})

\* C14: output is durable before progress. At every moment no record of the
\* status file counts more batches than its output file durably holds, and
\* while a batch is with the pipeline every earlier batch of the file is
\* durably in the output.
C14_OutputDurableBeforeProgress ==
    /\ \A k \in DOMAIN disk.data :
          disk.data[k].n_batches
              <= DurableCount(disk.data[k].file_path, disk.data[k].out_path)
    /\ jpc = "pipeline" => \A b \in 1..(bid - 1) : Durable(file_path, out_path, b)

\* the batch in flight, if any, belongs to the file with key k
InFlight(k) == fidx \in 1..Len(call.files) /\ k = pid

\* C15: the status store survives crashes. When the process is killed, at any
\* point of a run, the status file still holds a complete document, and for
\* every file that has completed batches it holds the record, counting all of
\* them, or all but the last one for the file being processed.
C15_StoreSurvivesCrash ==
    [][(jpc # "down" /\ jpc' = "down") =>
           /\ disk'.st # "truncated"
           /\ \A k \in DOMAIN status :
                 LET kept == status[k].n_batches - (IF InFlight(k) THEN 1 ELSE 0)
                 IN kept >= 1 =>
                        /\ disk'.st = "valid"
                        /\ k \in DOMAIN disk'.data
                        /\ disk'.data[k].n_batches >= kept]_vars

\* ------------------------------------------------------------------------
\* Properties of the job identity key
\* ------------------------------------------------------------------------
\* C16: the key is a function of configuration and paths that separates them.
\* Once two managers have worked on the same pair of paths: if their
\* configurations are the same they share the key, and if their configurations
\* differ in any parameter their keys differ and the second does not find the
\* record of the first; and under one configuration distinct pairs of input and
\* output path never have the same key.
C16_KeySeparatesConfigs ==
    jpc = "key_looked" =>
        /\ cfg = cfg2 =>
              /\ get_processing_id(cfg, file_path, out_path)
                     = get_processing_id(cfg2, file_path, out_path)
              /\ lookup = "resumed"
        /\ cfg # cfg2 =>
              /\ get_processing_id(cfg, file_path, out_path)
                     # get_processing_id(cfg2, file_path, out_path)
              /\ lookup = "new"
        /\ \A f1, f2 \in InPaths, o1, o2 \in OutPaths :
              <<f1, o1>> # <<f2, o2>> =>
                  get_processing_id(cfg, f1, o1) # get_processing_id(cfg, f2, o2)

\* ------------------------------------------------------------------------
\* Properties of resuming
\* ------------------------------------------------------------------------
\* C17: resume skip. When the loop of a file reaches a batch whose number is
\* at most the batches the record counts, the step fetches and annotates
\* nothing, writes nothing to the output and leaves the record and the status
\* file alone; the batch that is with the pipeline or being written is always
\* the one right after the batches counted, so the batches above the record's
\* count at the start of the run are processed one by one in increasing order,
\* each with its own identifiers.
C17_ResumeSkip ==
    [][/\ (jpc = "iter" /\ bid' = bid + 1 /\ bid' <= f_status.n_batches) =>
              /\ jpc' = "iter"
              /\ UNCHANGED <<pipeVars, status, disk, outfile, outbuf>>
       /\ (jpc = "iter" /\ bid' = bid + 1 /\ bid' > f_status.n_batches) =>
              /\ jpc' = "pipeline"
              /\ cons_pc' = "get"
              /\ producers'[Len(producers')].urls
                     = get_batch_picture_urls(_iter_batches(file_path)[bid'])
       /\ jpc' \in {"pipeline", "notify"} => bid' = status'[pid'].n_batches + 1
       /\ jpc' = "save_batch" => bid' = status'[pid'].n_batches]_vars

\* a restarted run has skipped the first of two batches the record counts
C17_Witness ==
    /\ jpc = "iter"
    /\ bid = 1
    /\ f_status.n_batches = 2
    /\ crashes >= 1
    /\ cons_pc = "idle"

\* what has been written to output o: the file system's copy, followed by what
\* the open file object still buffers
Written(o) ==
    outfile[o].data \o (IF OutputOpen /\ o = out_path THEN outbuf ELSE <<>>)

\* C18: across fresh runs, crashes and resumes the header row is in an output
\* exactly once, as its first row: an output that has any row starts with the
\* header and holds it nowhere else.
C18_HeaderExactlyOnce ==
    \A o \in OutPaths :
        Written(o) # <<>> =>
            /\ Written(o)[1] = Header
            /\ \A i \in 2..Len(Written(o)) : Written(o)[i] # Header

\* ------------------------------------------------------------------------
\* Properties of the progress record
\* ------------------------------------------------------------------------
\* a record of the status file marked done counts every batch of its input, and
\* every batch is in its output
DoneMeansComplete ==
    \A k \in DOMAIN disk.data :
        disk.data[k].is_done =>
            LET f == disk.data[k].file_path
                o == disk.data[k].out_path
            IN /\ disk.data[k].n_batches = Len(inputs[f])
               /\ \A b \in 1..Len(inputs[f]) : Durable(f, o, b)

\* C19: when the loop of a file reaches the end of its input, whatever the
\* number of batches, zero included, the file's record is marked done and the
\* save that follows puts the mark into the status file; conversely a record
\* marked done in the status file counts every batch of the file and every
\* batch was written.
C19_DoneIffEndOfInput ==
    /\ [][/\ (jpc = "iter" /\ bid = Len(_iter_batches(file_path))
                 /\ jpc' \notin {"iter", "down"}) =>
                 /\ jpc' = "save_done"
                 /\ status'[pid].is_done
          /\ (jpc = "save_done" /\ jpc' \notin {"save_done", "down"}) =>
                 /\ disk'.st = "valid"
                 /\ pid \in DOMAIN disk'.data
                 /\ disk'.data[pid].is_done]_vars
    /\ []DoneMeansComplete

\* every record of the store counts as many batches as it holds samples of
\* each kind
TelemetryMatches(store) == \A k \in DOMAIN store : CountsBatches(store[k], store[k].n_batches)

\* C20: the lifecycle of a progress record. A record enters the store with no
\* batch counted, not done and without telemetry; a step that changes the count
\* of a record raises it by exactly one and appends exactly one sample to each
\* of the four telemetry lists; in every state the four lists of every record,
\* in memory and in the status file, are as long as its count.
C20_RecordLifecycle ==
    /\ [](TelemetryMatches(status) /\ TelemetryMatches(disk.data))
    /\ [][\A k \in DOMAIN status' :
             /\ k \notin DOMAIN status =>
                   \/ jpc = "down"
                   \/ /\ status'[k].n_batches = 0
                      /\ ~status'[k].is_done
                      /\ \A i \in 1..4 : Telemetry(status'[k])[i] = <<>>
             /\ (k \in DOMAIN status /\ status'[k].n_batches # status[k].n_batches) =>
                   /\ status'[k].n_batches = status[k].n_batches + 1
                   /\ \A i \in 1..4 :
                         /\ Len(Telemetry(status'[k])[i]) = Len(Telemetry(status[k])[i]) + 1
                         /\ SubSeq(Telemetry(status'[k])[i], 1, Len(Telemetry(status[k])[i]))
                                = Telemetry(status[k])[i]]_vars

\* the status file holds a record that counts two batches
C20_Witness ==
    /\ disk.st = "valid"
    /\ \E k \in DOMAIN disk.data :
          /\ disk.data[k].n_batches = 2
          /\ Len(disk.data[k].iter_time) = 2
          /\ Len(disk.data[k].gpu_usage) = 2

\* every record of the document old is in the document new, counting no fewer
\* batches and still done if it was
Monotone(old, new) ==
    \A k \in DOMAIN old :
        /\ k \in DOMAIN new
        /\ new[k].n_batches >= old[k].n_batches
        /\ old[k].is_done => new[k].is_done

\* each complete document written to the status file keeps the records of the
\* one before, and changes none but the record of the file being processed
DocumentsMonotone ==
    /\ Monotone(saved, saved')
    /\ saved' # saved => \A k \in DOMAIN saved : k # pid => saved'[k] = saved[k]

\* C21: progress is monotone across runs. From one complete document of the
\* status file to the next no record is deleted, no count of batches decreases,
\* no record goes from done back to not done, and only the record of the file
\* being processed changes; and what a process finds in the status file when it
\* starts holds every record of the last complete document, none of them
\* counting fewer batches or having lost its done mark.
C21_ProgressMonotone ==
    /\ [][DocumentsMonotone]_vars
    /\ [](jpc = "down" =>
             /\ saved # EmptyStore => disk.st = "valid"
             /\ Monotone(saved, disk.data))

\* C22 as stated: the conflict is reachable only from a new file. Beginning a
\* file that has a record in the status file never raises the file-conflict
\* error, and every record in the status file counts at least one batch.
C22_ConflictOnlyFromNew ==
    /\ [][(ProcessFileBegin /\ Persisted(pid)) => err' # "FileExistsError"]_vars
    /\ [](\A k \in DOMAIN disk.data : disk.data[k].n_batches >= 1)

\* C22 amended: beginning a file whose record in the status file counts at
\* least one batch never raises the file-conflict error, and the error is only
\* raised for a file whose record counts no batch while its output exists. (A
\* record that counts no batch can be in the status file.)
C22_ConflictOnlyWithoutBatches ==
    [][/\ (ProcessFileBegin /\ Persisted(pid) /\ disk.data[pid].n_batches >= 1) =>
              err' # "FileExistsError"
       /\ (ProcessFileBegin /\ err' = "FileExistsError") =>
              /\ f_status.n_batches = 0
              /\ outfile[out_path].exists]_vars

\* after a kill, a file whose record in the status file counts a batch and is
\* not done has been begun again without an error
C22_Witness ==
    /\ jpc = "iter"
    /\ bid = 0
    /\ crashes >= 1
    /\ err = None
    /\ Persisted(pid)
    /\ disk.data[pid].n_batches >= 1
    /\ ~disk.data[pid].is_done

\* ------------------------------------------------------------------------
\* Properties of the hand-off queue and the worker pool
\* ------------------------------------------------------------------------
\* the batches in the hand-off queue, oldest first
Queued == qpipe \o qbuf

\* C23: backpressure. The hand-off queue never holds more than q_len batches;
\* while it is full and nothing is popped, a producer that is in its push stays
\* there with its batch and fetches nothing; and the queue is first in, first
\* out: a step leaves it alone, adds one batch at its end, or pops its oldest
\* batch, which is the one the consumer receives.
C23_Backpressure ==
    /\ [](Len(Queued) <= cfg.q_len)
    /\ [][/\ (Len(Queued) = cfg.q_len /\ Len(Queued') >= Len(Queued)) =>
                 \A t \in DOMAIN producers :
                     producers[t].pc = "put" =>
                         \E u \in DOMAIN producers' : producers'[u] = producers[t]
          /\ \/ Queued' = Queued
             \/ \E t \in DOMAIN producers :
                   /\ producers[t].pc = "put"
                   /\ Queued' = Append(Queued, producers[t].batch)
             \/ /\ Queued # <<>>
                /\ Queued' = Tail(Queued)
                /\ images' = Head(Queued)]_vars

\* the queue is full and the producer waits in its push with the next batch
C23_Witness ==
    /\ Len(Queued) = cfg.q_len
    /\ \E t \in DOMAIN producers :
          /\ producers[t].pc = "put"
          /\ producers[t].batch # <<>>
          /\ producers[t].i > 0

\* this step is the start of an invocation of get_image_captions_from_urls
InvocationStarts == cons_pc = "idle" /\ cons_pc' = "get"

\* C24: the lifecycle of the worker pool. There is no pool before the first
\* invocation; an invocation on a closed pipeline opens a new pool, never the
\* closed one, and an invocation on an open pipeline keeps its pool; close_pool
\* on a closed pipeline changes nothing; and whenever the producer dispatches
\* the fetches of a batch, the pool it uses exists and is open.
C24_PoolLifecycle ==
    /\ [](pool = 0 => (is_pool_closed /\ ~pool_running /\ producers = <<>>))
    /\ [][/\ (InvocationStarts /\ is_pool_closed) =>
                 /\ pool' = pool + 1
                 /\ pool_running'
                 /\ ~is_pool_closed'
          /\ (InvocationStarts /\ ~is_pool_closed) => UNCHANGED <<pool, pool_running>>
          /\ (CallClosePool /\ is_pool_closed) => UNCHANGED pipeVars
          /\ \A t \in DOMAIN producers :
                ProducerFetch(t) => (pool > 0 /\ pool_running /\ ~is_pool_closed)]_vars

\* ------------------------------------------------------------------------
\* Properties of the records
\* ------------------------------------------------------------------------
\* a record with a caption is valid
CaptionedIsValid(r) == r.caption # None => r.is_valid

AllCaptionedValid(rs) == \A k \in 1..Len(rs) : CaptionedIsValid(rs[k])

\* C25: a caption implies validity. Every record the pipeline holds or returns
\* (the batches of the producers and of the queue, the batch being annotated,
\* the accumulated result) and every record get_image_with_caption_from_url
\* returns is valid if it has a caption.
C25_CaptionImpliesValid ==
    /\ AllCaptionedValid(images)
    /\ AllCaptionedValid(all_images)
    /\ AllCaptionedValid(annot_arg)
    /\ AllCaptionedValid(single)
    /\ \A b \in 1..Len(Queued) : AllCaptionedValid(Queued[b])
    /\ \A t \in DOMAIN producers : AllCaptionedValid(producers[t].batch)

\* get_image_with_caption_from_url has returned a record whose fetch failed,
\* after the pipeline has returned a batch with a valid and an invalid record
C25_Witness ==
    /\ single # <<>>
    /\ ~single[1].is_valid
    /\ single[1].caption = None
    /\ cons_pc = "idle"
    /\ pool > 0

\* ------------------------------------------------------------------------
\* Properties of successive invocations
\* ------------------------------------------------------------------------
LiveProducers == {t \in DOMAIN producers : Alive(producers[t])}

\* C26: invocations are isolated. At most one producer thread is alive at any
\* time; when an invocation starts no producer of an earlier invocation is
\* alive and the hand-off queue is empty; and every record an invocation
\* returns carries one of the identifiers that invocation was called with.
C26_InvocationIsolation ==
    /\ [](Cardinality(LiveProducers) <= 1)
    /\ [][InvocationStarts => (Queued = <<>> /\ LiveProducers = {})]_vars
    /\ [](cons_pc = "returned" =>
             \A k \in 1..Len(all_images) :
                 \E j \in 1..Len(thread.urls) : all_images[k].url = thread.urls[j])

====
